---------------------------- MODULE Spec2Model ----------------------------
(***************************************************************************)
(* Model of geos::operation::relateng::RelateGeometry                      *)
(* (src/src/operation/relateng/RelateGeometry.cpp): the wrapper that       *)
(* classifies the dimensions of an input geometry, keeps the lazy caches   *)
(* and emits the segment strings of the input.                             *)
(*                                                                         *)
(* A geometry is a record [type, pts, rings, geoms]:                       *)
(*   Point, LineString, LinearRing : pts is the coordinate sequence        *)
(*   Polygon                       : rings = <<shell, hole1, ...>>         *)
(*   MultiPoint, MultiLineString, MultiPolygon, GeometryCollection         *)
(*                                 : geoms are the members                 *)
(* A coordinate is <<x, y, z>>.  A pointer to a component of the input is  *)
(* the path of member indices that leads to it from the input (<<>> is the *)
(* input itself); NullPath is the null pointer.                            *)
(*                                                                         *)
(* Further specifications over the same variables follow the classes the   *)
(* wrapper meets: SpecZL (isZeroLength of a line), SpecEff                  *)
(* (getEffectivePoints), SpecEnv and SpecRace (the envelope member of      *)
(* GeometryCollection, src/include/geos/geom/GeometryCollection.h),        *)
(* SpecRing (GEOSGetExteriorRing) and SpecWKB (WKBWriter,                   *)
(* src/source/io/WKBWriter.cpp).                                           *)
(***************************************************************************)
EXTENDS Integers, Sequences, FiniteSets, TLC

VARIABLES
    geom,           \* RelateGeometry::geom, the borrowed input
    instIsA,        \* whether the instance is geomA of the TopologyComputer
    state,          \* "raw" before the constructor ran, "ready" after, "crashed"
    m_isPrepared,
    geomEnv,
    geomDim,
    isLineZeroLen,
    isGeomEmpty,
    hasPoints,
    hasLines,
    hasAreas,
    elementId,
    locator,        \* TRUE once the RelatePointLocator has been built
    uniquePoints,   \* the unique-points set
    segStrings,     \* the vector returned by the last extractSegmentStrings
    emitted,        \* every segment string returned so far, tagged with its call
    calls,          \* number of extractSegmentStrings calls made
    lastEnv,        \* the filter of the last extractSegmentStrings call
    zlLine,         \* argument of isZeroLength(LineString)
    zlRes,          \* its result
    builds,         \* how often each lazy cache has been built
    gc,             \* a GeometryCollection with its mutable envelope member
    thr,            \* the threads constructing a RelateGeometry on gc
    ringRes,        \* argument and result of GEOSGetExteriorRing
    wkb             \* a WKBWriter, its argument and its output stream

vars == <<geom, instIsA, state, m_isPrepared, geomEnv, geomDim, isLineZeroLen,
          isGeomEmpty, hasPoints, hasLines, hasAreas, elementId, locator,
          uniquePoints, segStrings, emitted, calls, lastEnv,
          zlLine, zlRes, builds, gc, thr, ringRes, wkb>>

\* the state of the other classes modelled below
aux == <<gc, thr, ringRes, wkb>>

\* the state of one RelateGeometry
rgVars == <<geom, instIsA, state, m_isPrepared, geomEnv, geomDim, isLineZeroLen,
            isGeomEmpty, hasPoints, hasLines, hasAreas, elementId, locator,
            uniquePoints, segStrings, emitted, calls, lastEnv, zlLine, zlRes, builds>>

-----------------------------------------------------------------------------
(* Bounds *)

\* members of a generated collection
MaxElems == 2
\* holes of a generated polygon
MaxHoles == 2
\* extractSegmentStrings calls on one RelateGeometry
MaxCalls == 2
\* vertices of a line handed to isZeroLength(LineString)
MaxPts == 3
\* builds of one lazy cache that are followed
MaxBuilds == 2
\* members of a collection handed to getEffectivePoints
MaxEffElems == 3
\* members of the GeometryCollection whose envelope cache is followed
MaxGcElems == 2
\* threads constructing a RelateGeometry on one shared input
NThreads == 2
\* members of a collection handed to WKBWriter::write
MaxWkbElems == 2

-----------------------------------------------------------------------------
(* Dimension (geos/geom/Dimension.h) *)

DimFalse == -1
DimP == 0
DimL == 1
DimA == 2

NullPath == <<0>>

Max(a, b) == IF a < b THEN b ELSE a
Min(a, b) == IF a < b THEN a ELSE b

\* all sequences over S of length at most n
SeqUpTo(S, n) == UNION {[1..k -> S] : k \in 0..n}

-----------------------------------------------------------------------------
(* Geometry values *)

Geom(t, p, r, g) == [type |-> t, pts |-> p, rings |-> r, geoms |-> g]

MkPoint(p)       == Geom("Point", p, <<>>, <<>>)
MkLine(p)        == Geom("LineString", p, <<>>, <<>>)
MkRing(p)        == Geom("LinearRing", p, <<>>, <<>>)
MkPolygon(r)     == Geom("Polygon", <<>>, r, <<>>)
MkMultiPoint(g)  == Geom("MultiPoint", <<>>, <<>>, g)
MkMultiLine(g)   == Geom("MultiLineString", <<>>, <<>>, g)
MkMultiPoly(g)   == Geom("MultiPolygon", <<>>, <<>>, g)
MkCollection(g)  == Geom("GeometryCollection", <<>>, <<>>, g)

CollectionTypes == {"MultiPoint", "MultiLineString", "MultiPolygon", "GeometryCollection"}

\* GeometryCollection and its subclasses MultiPoint, MultiLineString, MultiPolygon
isCollectionClass(g) == g.type \in CollectionTypes

RECURSIVE isEmpty(_)
isEmpty(g) ==
    CASE g.type \in {"Point", "LineString", "LinearRing"} -> Len(g.pts) = 0
      [] g.type = "Polygon" -> Len(g.rings[1]) = 0
      [] OTHER -> \A i \in 1..Len(g.geoms) : isEmpty(g.geoms[i])

\* Geometry::getDimension(): the dimension of the type, the maximum over the
\* members for a collection
RECURSIVE getDimension(_)
RECURSIVE MaxMemberDim(_, _)
MaxMemberDim(gs, i) ==
    IF i > Len(gs) THEN DimFalse
    ELSE Max(getDimension(gs[i]), MaxMemberDim(gs, i + 1))
getDimension(g) ==
    CASE g.type = "Point" -> DimP
      [] g.type \in {"LineString", "LinearRing"} -> DimL
      [] g.type = "Polygon" -> DimA
      [] OTHER -> MaxMemberDim(g.geoms, 1)

\* Geometry::getNumGeometries() / Geometry::getGeometryN(): an atomic geometry
\* is its own single member
getNumGeometries(g) == IF isCollectionClass(g) THEN Len(g.geoms) ELSE 1
getGeometryN(g, i) == IF isCollectionClass(g) THEN g.geoms[i] ELSE g
\* the pointer to member i of the geometry at path
memberPath(g, path, i) == IF isCollectionClass(g) THEN Append(path, i) ELSE path

\* GeometryCollection::getAllGeometries: the non-collection components, in order
RECURSIVE getAllGeometries(_)
RECURSIVE AllOfMembers(_, _)
AllOfMembers(gs, i) ==
    IF i > Len(gs) THEN <<>>
    ELSE (IF isCollectionClass(gs[i]) THEN getAllGeometries(gs[i]) ELSE <<gs[i]>>)
         \o AllOfMembers(gs, i + 1)
getAllGeometries(g) == AllOfMembers(g.geoms, 1)

-----------------------------------------------------------------------------
(* Envelope (geos/geom/Envelope.h).  nullptr marks a null Envelope pointer,  *)
(* null a null (empty) envelope.                                            *)

Env(x1, x2, y1, y2) ==
    [nullptr |-> FALSE, null |-> FALSE, minx |-> x1, maxx |-> x2, miny |-> y1, maxy |-> y2]
NullEnv == [nullptr |-> FALSE, null |-> TRUE, minx |-> 0, maxx |-> 0, miny |-> 0, maxy |-> 0]
NullPtrEnv == [nullptr |-> TRUE, null |-> TRUE, minx |-> 0, maxx |-> 0, miny |-> 0, maxy |-> 0]

expandToInclude(a, b) ==
    IF a.null THEN b
    ELSE IF b.null THEN a
    ELSE Env(Min(a.minx, b.minx), Max(a.maxx, b.maxx), Min(a.miny, b.miny), Max(a.maxy, b.maxy))

intersects(a, b) ==
    /\ ~a.null
    /\ ~b.null
    /\ ~(b.minx > a.maxx \/ b.maxx < a.minx \/ b.miny > a.maxy \/ b.maxy < a.miny)

RECURSIVE EnvOfPts(_, _)
EnvOfPts(p, i) ==
    IF i > Len(p) THEN NullEnv
    ELSE expandToInclude(Env(p[i][1], p[i][1], p[i][2], p[i][2]), EnvOfPts(p, i + 1))

RECURSIVE getEnvelopeInternal(_)
RECURSIVE EnvOfMembers(_, _)
EnvOfMembers(gs, i) ==
    IF i > Len(gs) THEN NullEnv
    ELSE expandToInclude(getEnvelopeInternal(gs[i]), EnvOfMembers(gs, i + 1))
getEnvelopeInternal(g) ==
    CASE g.type \in {"Point", "LineString", "LinearRing"} -> EnvOfPts(g.pts, 1)
      [] g.type = "Polygon" -> EnvOfPts(g.rings[1], 1)
      [] OTHER -> EnvOfMembers(g.geoms, 1)

-----------------------------------------------------------------------------
(* The inputs a RelateGeometry is constructed on *)

C(x, y) == <<x, y, 0>>

ShellA == <<C(0,0), C(3,0), C(3,3), C(0,3), C(0,0)>>
ShellB == <<C(4,4), C(6,4), C(6,6), C(4,4)>>
HoleA  == <<C(1,1), C(2,1), C(1,2), C(1,1)>>
HoleB  == <<C(2,2), C(3,2), C(2,3), C(2,2)>>

PtEmpty == MkPoint(<<>>)
PtA     == MkPoint(<<C(0,0)>>)
PtB     == MkPoint(<<C(5,5)>>)
LnEmpty == MkLine(<<>>)
LnZero  == MkLine(<<C(1,1), C(1,1)>>)
LnA     == MkLine(<<C(0,0), C(1,1)>>)
LnB     == MkLine(<<C(5,5), C(6,6)>>)
LnPPQ   == MkLine(<<C(2,2), C(2,2), C(3,3)>>)
RgEmpty == MkRing(<<>>)
RgA     == MkRing(<<C(0,0), C(1,0), C(1,1), C(0,0)>>)
PgEmpty == MkPolygon(<< <<>> >>)
PgA     == MkPolygon(<<ShellA>>)
PgAH    == MkPolygon(<<ShellA, HoleA>>)
PgB     == MkPolygon(<<ShellB>>)

\* holes of the generated polygons; a hole may be an empty ring
HolePool == {<<>>, HoleA, HoleB}

Points   == {PtEmpty, PtA, PtB}
Lines    == {LnEmpty, LnZero, LnA, LnB, LnPPQ}
Rings    == {RgEmpty, RgA}
Polygons == {PgEmpty, PgB} \cup {MkPolygon(<<ShellA>> \o hs) : hs \in SeqUpTo(HolePool, MaxHoles)}

MultiPoints == {MkMultiPoint(s) : s \in SeqUpTo({PtEmpty, PtA}, MaxElems)}
MultiLines  == {MkMultiLine(s) : s \in SeqUpTo({LnEmpty, LnZero, LnA}, MaxElems)}
MultiPolys  == {MkMultiPoly(s) : s \in SeqUpTo({PgEmpty, PgA, PgAH, PgB}, MaxElems)}

\* members of the generated heterogeneous collections
MemberPool == {PtA, LnEmpty, LnZero, LnA, RgA, PgAH,
               MkMultiLine(<<LnA>>), MkMultiPoly(<<PgAH, PgB>>)}
Collections == {MkCollection(s) : s \in SeqUpTo(MemberPool, MaxElems)}

\* collections nested in collections
InnerPool == {PtA, LnA, LnZero, PgAH, RgA, MkMultiLine(<<LnA>>), MkMultiPoly(<<PgAH, PgB>>)}
Nested ==
    {MkCollection(<<a, MkCollection(<<b>>)>>) : a \in {LnZero, PgB}, b \in InnerPool}
    \cup {MkCollection(<<MkCollection(<<MkCollection(<<b>>)>>), a>>) : a \in {PtA, LnB}, b \in InnerPool}
    \cup {MkCollection(<<MkCollection(<<>>)>>)}

Inputs == Points \cup Lines \cup Rings \cup Polygons
          \cup MultiPoints \cup MultiLines \cup MultiPolys \cup Collections \cup Nested

\* the envelope filters handed to extractSegmentStrings
Filters == {NullPtrEnv, Env(1,1,1,1)}

-----------------------------------------------------------------------------
(* Construction *)

\* What static_cast to GeometryCollection of g, then->getAllGeometries(elems)
\* yields.  For an object of a collection class it is the list of its
\* components.  For any other object the cast is undefined behaviour: the call
\* reads the bytes of a foreign object as the member vector, so it may crash or
\* deliver any list of elements.
GarbageElems == {<<>>, <<PtA>>, <<LnA>>, <<PgA>>}
castToCollection(g) ==
    IF isCollectionClass(g)
    THEN {[crash |-> FALSE, elems |-> getAllGeometries(g)]}
    ELSE {[crash |-> TRUE, elems |-> <<>>]}
         \cup {[crash |-> FALSE, elems |-> e] : e \in GarbageElems}

\* CoordinateXY::equals2D
equals2D(p, q) == p[1] = q[1] /\ p[2] = q[2]

\* the loop of isZeroLength(LineString) from index i on
RECURSIVE ZeroLenFrom(_, _)
\* the loop as it stood before the change from JTS: index 1 compared every time
ZeroLenFrom_IndexOne(pts, i) ==
    IF i > Len(pts) THEN TRUE
    ELSE IF ~equals2D(pts[1], pts[2]) THEN FALSE
    ELSE ZeroLenFrom(pts, i + 1)

ZeroLenFrom(pts, i) ==
    IF i > Len(pts) THEN TRUE
    ELSE IF ~equals2D(pts[1], pts[i]) THEN FALSE
    ELSE ZeroLenFrom(pts, i + 1)

\* RelateGeometry::isZeroLength(LineString), on the line's coordinates
isZeroLengthLine(pts) ==
    IF Len(pts) >= 2 THEN ZeroLenFrom(pts, 2) ELSE TRUE

\* the loop of isZeroLength(Geometry) over elems
RECURSIVE ZeroLenElems(_, _)
ZeroLenElems(elems, i) ==
    IF i > Len(elems) THEN TRUE
    ELSE IF elems[i].type = "LineString" /\ ~isZeroLengthLine(elems[i].pts) THEN FALSE
    ELSE ZeroLenElems(elems, i + 1)

\* RelateGeometry::isZeroLength(Geometry), given what the cast delivered
isZeroLength(elems) == ZeroLenElems(elems, 1)

\* the loop of analyzeDimensions over elems; d holds the flags and geomDim
RECURSIVE AnalyzeElems(_, _, _)
AnalyzeElems(elems, i, d) ==
    IF i > Len(elems) THEN d
    ELSE IF isEmpty(elems[i]) THEN AnalyzeElems(elems, i + 1, d)
    ELSE LET t  == elems[i].type
             d1 == IF t = "Point"
                   THEN [d EXCEPT !.hasPoints = TRUE, !.geomDim = Max(d.geomDim, DimP)]
                   ELSE d
             d2 == IF t = "LineString"
                   THEN [d1 EXCEPT !.hasLines = TRUE, !.geomDim = Max(d1.geomDim, DimL)]
                   ELSE d1
             d3 == IF t = "Polygon"
                   THEN [d2 EXCEPT !.hasAreas = TRUE, !.geomDim = Max(d2.geomDim, DimA)]
                   ELSE d2
         IN  AnalyzeElems(elems, i + 1, d3)

\* RelateGeometry::analyzeDimensions, starting from the member initializers
analyzeDimensions(g, empty, dim0, elems) ==
    LET d == [hasPoints |-> FALSE, hasLines |-> FALSE, hasAreas |-> FALSE, geomDim |-> dim0]
    IN  IF empty THEN d
        ELSE IF g.type \in {"Point", "MultiPoint"}
             THEN [d EXCEPT !.hasPoints = TRUE, !.geomDim = DimP]
        ELSE IF g.type \in {"LineString", "MultiLineString"}
             THEN [d EXCEPT !.hasLines = TRUE, !.geomDim = DimL]
        ELSE IF g.type \in {"Polygon", "MultiPolygon"}
             THEN [d EXCEPT !.hasAreas = TRUE, !.geomDim = DimA]
        ELSE AnalyzeElems(elems, 1, d)

\* RelateGeometry::RelateGeometry
Construct ==
    /\ state = "raw"
    /\ \E prepared \in BOOLEAN, c \in castToCollection(geom) :
         IF c.crash
         THEN /\ state' = "crashed"
              /\ UNCHANGED <<m_isPrepared, geomEnv, geomDim, isLineZeroLen, isGeomEmpty,
                             hasPoints, hasLines, hasAreas>>
         ELSE LET d == analyzeDimensions(geom, isEmpty(geom), getDimension(geom), c.elems)
              IN  /\ state' = "ready"
                  /\ m_isPrepared' = prepared
                  /\ geomEnv' = getEnvelopeInternal(geom)
                  /\ isLineZeroLen' = isZeroLength(c.elems)
                  /\ isGeomEmpty' = isEmpty(geom)
                  /\ geomDim' = d.geomDim
                  /\ hasPoints' = d.hasPoints
                  /\ hasLines' = d.hasLines
                  /\ hasAreas' = d.hasAreas
    /\ UNCHANGED <<geom, instIsA, elementId, locator, uniquePoints, segStrings, emitted,
                   calls, lastEnv, zlLine, zlRes, builds, aux>>

-----------------------------------------------------------------------------
(* Segment string extraction.  st = [segs, elementId] is the vector being    *)
(* filled and the member counter.  A segment string keeps the pointer to its *)
(* coordinate sequence as src (the element owning it) and ring (0 for the    *)
(* sequence of a line, k for rings[k] of a polygon).                         *)

\* RelateSegmentString::createLine
createLine(src, isA, id) ==
    [isA |-> isA, elementId |-> id, ringId |-> -1, parent |-> NullPath,
     src |-> src, ring |-> 0]

\* RelateSegmentString::createRing
createRing(src, ring, isA, id, ringId, parentPoly) ==
    [isA |-> isA, elementId |-> id, ringId |-> ringId, parent |-> parentPoly,
     src |-> src, ring |-> ring]

\* extractRingToSegmentString without the per-ring envelope test
extractRingToSegmentString_NoFilter(isA, poly, path, k, ringId, env, parentPoly, st) ==
    IF Len(poly.rings[k]) = 0 THEN st
    ELSE [st EXCEPT !.segs =
              Append(@, createRing(path, k, isA, st.elementId, ringId, parentPoly))]

\* RelateGeometry::extractRingToSegmentString; the ring is rings[k] of poly
extractRingToSegmentString(isA, poly, path, k, ringId, env, parentPoly, st) ==
    IF Len(poly.rings[k]) = 0 THEN st
    ELSE IF ~env.nullptr /\ ~intersects(env, EnvOfPts(poly.rings[k], 1)) THEN st
    ELSE [st EXCEPT !.segs =
              Append(@, createRing(path, k, isA, st.elementId, ringId, parentPoly))]

\* the loop over the interior rings, from hole index i (0-based) on
RECURSIVE ExtractHoles(_, _, _, _, _, _, _)
\* the hole loop handing the 0-based hole index on as the ring id
ExtractHoles_ZeroBased(isA, poly, path, i, env, parentPoly, st) ==
    IF i >= Len(poly.rings) - 1 THEN st
    ELSE ExtractHoles(isA, poly, path, i + 1, env, parentPoly,
             extractRingToSegmentString(isA, poly, path, i + 2, i, env, parentPoly, st))

ExtractHoles(isA, poly, path, i, env, parentPoly, st) ==
    IF i >= Len(poly.rings) - 1 THEN st
    ELSE ExtractHoles(isA, poly, path, i + 1, env, parentPoly,
             extractRingToSegmentString(isA, poly, path, i + 2, i + 1, env, parentPoly, st))

\* RelateGeometry::extractSegmentStringsFromAtomic
extractSegmentStringsFromAtomic(isA, g, path, parentPolygonal, env, st) ==
    IF isEmpty(g) THEN st
    ELSE IF ~(env.nullptr \/ intersects(env, getEnvelopeInternal(g))) THEN st
    ELSE LET st1 == [st EXCEPT !.elementId = @ + 1]
         IN  IF g.type = "LineString"
             THEN [st1 EXCEPT !.segs = Append(@, createLine(path, isA, st1.elementId))]
             ELSE IF g.type = "Polygon"
             THEN LET parentPoly == IF parentPolygonal # NullPath THEN parentPolygonal ELSE path
                  IN  ExtractHoles(isA, g, path, 0, env, parentPoly,
                          extractRingToSegmentString(isA, g, path, 1, 0, env, parentPoly, st1))
             ELSE st1

\* RelateGeometry::extractSegmentStrings(isA, env, p_geom, segStrings) and its
\* loop over the members from index i (1-based) on
RECURSIVE extractSegmentStrings(_, _, _, _, _)
RECURSIVE ExtractMembers(_, _, _, _, _, _, _)
ExtractMembers(isA, env, g, path, parentPolygonal, i, st) ==
    IF i > getNumGeometries(g) THEN st
    ELSE LET m  == getGeometryN(g, i)
             mp == memberPath(g, path, i)
         IN  ExtractMembers(isA, env, g, path, parentPolygonal, i + 1,
                 IF m.type = "GeometryCollection"
                 THEN extractSegmentStrings(isA, env, m, mp, st)
                 ELSE extractSegmentStringsFromAtomic(isA, m, mp, parentPolygonal, env, st))
\* extractSegmentStrings that never records a MultiPolygon parent
extractSegmentStrings_NoParent(isA, env, g, path, st) ==
    ExtractMembers(isA, env, g, path, NullPath, 1, st)

extractSegmentStrings(isA, env, g, path, st) ==
    ExtractMembers(isA, env, g, path,
                   IF g.type = "MultiPolygon" THEN path ELSE NullPath, 1, st)

\* the vector a call delivered, each entry tagged with the number of the call
RECURSIVE Tagged(_, _, _)
Tagged(segs, i, n) ==
    IF i > Len(segs) THEN <<>>
    ELSE <<[call |-> n, ss |-> segs[i]]>> \o Tagged(segs, i + 1, n)

\* extractSegmentStrings restarting the element counter on every call
ExtractSegmentStrings_Reset ==
    /\ state = "ready"
    /\ calls < MaxCalls
    /\ \E env \in Filters :
         LET r == extractSegmentStrings(instIsA, env, geom, <<>>,
                                        [segs |-> <<>>, elementId |-> 0])
         IN  /\ segStrings' = r.segs
             /\ elementId' = r.elementId
             /\ emitted' = emitted \o Tagged(r.segs, 1, calls + 1)
             /\ lastEnv' = env
    /\ calls' = calls + 1
    /\ UNCHANGED <<geom, instIsA, state, m_isPrepared, geomEnv, geomDim, isLineZeroLen,
                   isGeomEmpty, hasPoints, hasLines, hasAreas, locator, uniquePoints,
                   zlLine, zlRes, builds, aux>>

\* RelateGeometry::extractSegmentStrings(isA, env), the public entry
ExtractSegmentStrings ==
    /\ state = "ready"
    /\ calls < MaxCalls
    /\ \E env \in Filters :
         LET r == extractSegmentStrings(instIsA, env, geom, <<>>,
                                        [segs |-> <<>>, elementId |-> elementId])
         IN  /\ segStrings' = r.segs
             /\ elementId' = r.elementId
             /\ emitted' = emitted \o Tagged(r.segs, 1, calls + 1)
             /\ lastEnv' = env
    /\ calls' = calls + 1
    /\ UNCHANGED <<geom, instIsA, state, m_isPrepared, geomEnv, geomDim, isLineZeroLen, isGeomEmpty,
                   hasPoints, hasLines, hasAreas, locator, uniquePoints, zlLine, zlRes, builds, aux>>

-----------------------------------------------------------------------------
(* The const getters: each returns a function of the members and changes    *)
(* nothing.                                                                 *)

\* RelateGeometry::getDimension
getDimensionRG == geomDim

\* RelateGeometry::hasDimension
hasDimension(dim) ==
    CASE dim = DimP -> hasPoints
      [] dim = DimL -> hasLines
      [] dim = DimA -> hasAreas
      [] OTHER -> FALSE

\* RelateGeometry::getDimensionReal
getDimensionReal ==
    IF isGeomEmpty THEN DimFalse
    ELSE IF getDimensionRG = DimL /\ isLineZeroLen THEN DimP
    ELSE IF hasAreas THEN DimA
    ELSE IF hasLines THEN DimL
    ELSE DimP

\* RelateGeometry::hasEdges
hasEdges == hasLines \/ hasAreas

\* RelateGeometry::isPointsOrPolygons
isPointsOrPolygons == geom.type \in {"Point", "MultiPoint", "Polygon", "MultiPolygon"}

\* RelateGeometry::isPolygonal
isPolygonal == geom.type \in {"Polygon", "MultiPolygon"}

GetGeometry        == state = "ready" /\ UNCHANGED vars
IsPrepared         == state = "ready" /\ UNCHANGED vars
GetEnvelope        == state = "ready" /\ UNCHANGED vars
GetDimension       == state = "ready" /\ UNCHANGED vars
HasDimension       == state = "ready" /\ UNCHANGED vars
\* getDimensionReal storing the collapsed dimension back into geomDim
GetDimensionReal_Storing ==
    /\ state = "ready"
    /\ geomDim' = getDimensionReal
    /\ UNCHANGED <<geom, instIsA, state, m_isPrepared, geomEnv, isLineZeroLen, isGeomEmpty,
                   hasPoints, hasLines, hasAreas, elementId, locator, uniquePoints,
                   segStrings, emitted, calls, lastEnv, zlLine, zlRes, builds, aux>>
GetDimensionReal   == state = "ready" /\ UNCHANGED vars
HasEdges           == state = "ready" /\ UNCHANGED vars
IsPointsOrPolygons == state = "ready" /\ UNCHANGED vars
IsPolygonal        == state = "ready" /\ UNCHANGED vars
IsEmpty            == state = "ready" /\ UNCHANGED vars

-----------------------------------------------------------------------------
(* The lazy caches *)

\* RelateGeometry::getLocator: builds the locator unless it is there
getLocator(loc) == IF loc = FALSE THEN TRUE ELSE loc

\* the RelatePointLocator objects a getLocator() call creates
newLocators(loc) == IF loc = FALSE THEN 1 ELSE 0

\* an operation whose only access to the members is getLocator()
UsesLocator ==
    /\ state = "ready"
    /\ locator # FALSE \/ builds.locator < MaxBuilds
    /\ locator' = getLocator(locator)
    /\ builds' = [builds EXCEPT !.locator = @ + newLocators(locator)]
    /\ UNCHANGED <<geom, instIsA, state, m_isPrepared, geomEnv, geomDim, isLineZeroLen, isGeomEmpty,
                   hasPoints, hasLines, hasAreas, elementId, uniquePoints, segStrings,
                   emitted, calls, lastEnv, zlLine, zlRes, aux>>

IsNodeInArea     == UsesLocator
LocateLineEnd    == UsesLocator
LocateAreaVertex == UsesLocator
LocateNode       == UsesLocator
LocateWithDim    == UsesLocator
HasBoundary      == UsesLocator

\* ComponentCoordinateExtracter::getCoordinates: one coordinate of every
\* non-empty component
RECURSIVE componentCoordinates(_)
componentCoordinates(g) ==
    CASE g.type \in {"Point", "LineString", "LinearRing"} ->
             IF Len(g.pts) = 0 THEN {} ELSE {<<g.pts[1][1], g.pts[1][2]>>}
      [] g.type = "Polygon" ->
             {<<g.rings[k][1][1], g.rings[k][1][2]>> :
                  k \in {j \in 1..Len(g.rings) : Len(g.rings[j]) > 0}}
      [] OTHER -> UNION {componentCoordinates(g.geoms[i]) : i \in 1..Len(g.geoms)}

\* RelateGeometry::createUniquePoints
createUniquePoints == componentCoordinates(geom)

\* RelateGeometry::getUniquePoints
GetUniquePoints ==
    /\ state = "ready"
    /\ uniquePoints # {} \/ builds.unique < MaxBuilds
    /\ uniquePoints' = IF uniquePoints = {} THEN createUniquePoints ELSE uniquePoints
    /\ builds' = IF uniquePoints = {} THEN [builds EXCEPT !.unique = @ + 1] ELSE builds
    /\ UNCHANGED <<geom, instIsA, state, m_isPrepared, geomEnv, geomDim, isLineZeroLen, isGeomEmpty,
                   hasPoints, hasLines, hasAreas, elementId, locator, segStrings,
                   emitted, calls, lastEnv, zlLine, zlRes, aux>>

\* PointExtracter::getPoints: the Point components, in order
RECURSIVE getPoints(_, _)
RECURSIVE PointsOfMembers(_, _, _)
PointsOfMembers(g, path, i) ==
    IF i > Len(g.geoms) THEN <<>>
    ELSE getPoints(g.geoms[i], Append(path, i)) \o PointsOfMembers(g, path, i + 1)
getPoints(g, path) ==
    IF g.type = "Point" THEN <<path>>
    ELSE IF isCollectionClass(g) THEN PointsOfMembers(g, path, 1)
    ELSE <<>>

\* the geometry a pointer into g designates
RECURSIVE deref(_, _)
deref(g, path) == IF Len(path) = 0 THEN g ELSE deref(g.geoms[Head(path)], Tail(path))

\* the elements the locator of g holds: its atomic components
locatorElements(g) == IF isCollectionClass(g) THEN getAllGeometries(g) ELSE <<g>>

\* p lies on the segment from a to b
onSegment(p, a, b) ==
    /\ (b[1] - a[1]) * (p[2] - a[2]) = (b[2] - a[2]) * (p[1] - a[1])
    /\ Min(a[1], b[1]) <= p[1] /\ p[1] <= Max(a[1], b[1])
    /\ Min(a[2], b[2]) <= p[2] /\ p[2] <= Max(a[2], b[2])

\* p lies on the line through the coordinates pts
onLine(p, pts) == \E i \in 1..(Len(pts) - 1) : onSegment(p, pts[i], pts[i + 1])

\* p lies strictly inside the ring: an odd number of edges cross the ray
\* from p in the direction of +x
insideRing(p, ring) ==
    LET crossing(i) ==
            LET a == ring[i]
                b == ring[i + 1]
                t == (p[2] - a[2]) * (b[1] - a[1]) - (p[1] - a[1]) * (b[2] - a[2])
            IN  /\ (a[2] > p[2]) # (b[2] > p[2])
                /\ IF b[2] > a[2] THEN t > 0 ELSE t < 0
    IN  Cardinality({i \in 1..(Len(ring) - 1) : crossing(i)}) % 2 = 1

\* PointInAreaLocator: INTERIOR, BOUNDARY or EXTERIOR of a polygon
locateInArea(p, poly) ==
    IF isEmpty(poly) THEN "EXTERIOR"
    ELSE IF \E k \in 1..Len(poly.rings) : onLine(p, poly.rings[k]) THEN "BOUNDARY"
    ELSE IF /\ insideRing(p, poly.rings[1])
            /\ \A k \in 2..Len(poly.rings) : ~insideRing(p, poly.rings[k])
         THEN "INTERIOR"
    ELSE "EXTERIOR"

\* the line ends of g at p, counted for the boundary node rule
lineEndsAt(p, els) ==
    {<<i, e>> \in (1..Len(els)) \X {1, 2} :
        /\ els[i].type \in {"LineString", "LinearRing"}
        /\ Len(els[i].pts) > 0
        /\ ~equals2D(els[i].pts[1], els[i].pts[Len(els[i].pts)])
        /\ equals2D(p, els[i].pts[IF e = 1 THEN 1 ELSE Len(els[i].pts)])}

\* RelatePointLocator::locateWithDim on the locator of g.  coord is the
\* coordinate sequence of the probing Point: an empty Point hands over no
\* coordinate, and nothing contains it.
locateWithDim(g, coord) ==
    IF Len(coord) = 0 \/ isEmpty(g) THEN "EXTERIOR"
    ELSE LET p   == coord[1]
             els == locatorElements(g)
             idx == 1..Len(els)
             areaLocs == {locateInArea(p, els[i]) : i \in {j \in idx : els[j].type = "Polygon"}}
         IN  IF "INTERIOR" \in areaLocs THEN "AREA_INTERIOR"
             ELSE IF "BOUNDARY" \in areaLocs THEN "AREA_BOUNDARY"
             ELSE IF \E i \in idx : /\ els[i].type \in {"LineString", "LinearRing"}
                                     /\ onLine(p, els[i].pts)
                  THEN IF Cardinality(lineEndsAt(p, els)) % 2 = 1
                       THEN "LINE_BOUNDARY"
                       ELSE "LINE_INTERIOR"
             ELSE IF \E i \in idx : /\ els[i].type = "Point"
                                     /\ Len(els[i].pts) > 0
                                     /\ equals2D(p, els[i].pts[1])
                  THEN "POINT_INTERIOR"
             ELSE "EXTERIOR"

\* DimensionLocation::dimension
dimension(dimLoc) ==
    CASE dimLoc = "POINT_INTERIOR" -> DimP
      [] dimLoc \in {"LINE_INTERIOR", "LINE_BOUNDARY"} -> DimL
      [] dimLoc \in {"AREA_INTERIOR", "AREA_BOUNDARY"} -> DimA
      [] OTHER -> DimFalse

\* the loop of getEffectivePoints over ptListAll from index i on
RECURSIVE EffectiveFrom(_, _)
EffectiveFrom(ptListAll, i) ==
    IF i > Len(ptListAll) THEN <<>>
    ELSE LET locDim == locateWithDim(geom, deref(geom, ptListAll[i]).pts)
         IN  (IF dimension(locDim) = DimP THEN <<ptListAll[i]>> ELSE <<>>)
             \o EffectiveFrom(ptListAll, i + 1)

\* getEffectivePoints filtering whatever the real dimension is
getEffectivePoints_AlwaysFiltered == EffectiveFrom(getPoints(geom, <<>>), 1)

\* RelateGeometry::getEffectivePoints: the vector it returns
getEffectivePoints ==
    LET ptListAll == getPoints(geom, <<>>)
    IN  IF getDimensionReal <= DimP THEN ptListAll
        ELSE EffectiveFrom(ptListAll, 1)

\* RelateGeometry::getEffectivePoints: locateWithDim, hence getLocator, runs
\* for every extracted Point once the real dimension exceeds P
GetEffectivePoints ==
    /\ state = "ready"
    /\ locator # FALSE \/ builds.locator < MaxBuilds
    /\ locator' = IF getDimensionReal <= DimP \/ Len(getPoints(geom, <<>>)) = 0
                  THEN locator
                  ELSE getLocator(locator)
    /\ builds' = IF getDimensionReal <= DimP \/ Len(getPoints(geom, <<>>)) = 0
                 THEN builds
                 ELSE [builds EXCEPT !.locator = @ + newLocators(locator)]
    /\ UNCHANGED <<geom, instIsA, state, m_isPrepared, geomEnv, geomDim, isLineZeroLen, isGeomEmpty,
                   hasPoints, hasLines, hasAreas, elementId, uniquePoints, segStrings,
                   emitted, calls, lastEnv, zlLine, zlRes, aux>>

-----------------------------------------------------------------------------
(* The specification of one RelateGeometry *)

Blank ==
    /\ state = "raw"
    /\ m_isPrepared = FALSE
    /\ geomEnv = NullPtrEnv
    /\ geomDim = DimFalse
    /\ isLineZeroLen = FALSE
    /\ isGeomEmpty = FALSE
    /\ hasPoints = FALSE
    /\ hasLines = FALSE
    /\ hasAreas = FALSE
    /\ elementId = 0
    /\ locator = FALSE
    /\ uniquePoints = {}
    /\ segStrings = <<>>
    /\ emitted = <<>>
    /\ calls = 0
    /\ lastEnv = NullPtrEnv

\* no cache built yet
NoBuilds == builds = [locator |-> 0, unique |-> 0]

\* the objects of the other classes are not in use
NoCollection == gc = [used |-> FALSE]
NoThreads    == thr = [used |-> FALSE]
NoRingCall   == ringRes = [used |-> FALSE]
NoWriter     == wkb = [used |-> FALSE]

Init ==
    /\ geom \in Inputs
    /\ instIsA \in BOOLEAN
    /\ Blank
    /\ NoBuilds
    /\ zlLine = <<>>
    /\ zlRes = "none"
    /\ NoCollection /\ NoThreads /\ NoRingCall /\ NoWriter

Next ==
    \/ Construct
    \/ ExtractSegmentStrings
    \/ GetGeometry
    \/ IsPrepared
    \/ GetEnvelope
    \/ GetDimension
    \/ HasDimension
    \/ GetDimensionReal
    \/ HasEdges
    \/ IsPointsOrPolygons
    \/ IsPolygonal
    \/ IsEmpty
    \/ IsNodeInArea
    \/ LocateLineEnd
    \/ LocateAreaVertex
    \/ LocateNode
    \/ LocateWithDim
    \/ HasBoundary
    \/ GetUniquePoints
    \/ GetEffectivePoints

Spec == Init /\ [][Next]_vars

-----------------------------------------------------------------------------
(* getEffectivePoints on collections that mix Points with lines and areas   *)
(* covering some of them                                                     *)

PtD == MkPoint(<<C(1,1)>>)

\* PtA and PtD lie on LnA, PtD on LnZero, PtB on the boundary of PgB
EffPool == {PtEmpty, PtA, PtB, PtD, LnA, LnZero, PgB, MkCollection(<<PtB, PtA>>)}

EffInputs ==
    {MkCollection(s) : s \in SeqUpTo(EffPool, MaxEffElems)}
    \cup {MkMultiPoint(s) : s \in SeqUpTo({PtEmpty, PtA, PtB}, MaxEffElems)}
    \cup {PtEmpty, PtA, LnA}

InitEff ==
    /\ geom \in EffInputs
    /\ instIsA = TRUE
    /\ Blank
    /\ NoBuilds
    /\ zlLine = <<>>
    /\ zlRes = "none"
    /\ NoCollection /\ NoThreads /\ NoRingCall /\ NoWriter

NextEff ==
    \/ Construct
    \/ GetEffectivePoints

SpecEff == InitEff /\ [][NextEff]_vars

-----------------------------------------------------------------------------
(* isZeroLength(LineString) on its own: every line of up to MaxPts    *)
(* vertices over a small grid, Z included                                    *)

Coords3 == {<<x, y, z>> : x \in 0..1, y \in 0..1, z \in 0..1}

IsZeroLengthCall ==
    /\ zlRes = "none"
    /\ zlRes' = IF isZeroLengthLine(zlLine) THEN "true" ELSE "false"
    /\ UNCHANGED <<geom, instIsA, state, m_isPrepared, geomEnv, geomDim, isLineZeroLen, isGeomEmpty,
                   hasPoints, hasLines, hasAreas, elementId, locator, uniquePoints,
                   segStrings, emitted, calls, lastEnv, zlLine, builds, aux>>

InitZL ==
    /\ geom = PtEmpty
    /\ instIsA = TRUE
    /\ Blank
    /\ NoBuilds
    /\ zlLine \in SeqUpTo(Coords3, MaxPts)
    /\ zlRes = "none"
    /\ NoCollection /\ NoThreads /\ NoRingCall /\ NoWriter

NextZL == IsZeroLengthCall

SpecZL == InitZL /\ [][NextZL]_vars

-----------------------------------------------------------------------------
(* GeometryCollection and its lazily computed envelope                       *)
(* (src/include/geos/geom/GeometryCollection.h).  gc is one collection       *)
(* object: geoms its members, envelope its mutable member.  ret is the       *)
(* envelope the last getEnvelopeInternal call handed back, last the last     *)
(* operation performed, rg whether a RelateGeometry holds the pointer to     *)
(* envelope, mutated whether the object was changed since that construction. *)

\* the contents a collection can have
GcContents == SeqUpTo({PtA, LnB, PgB}, MaxGcElems)

\* GeometryCollection::computeEnvelopeInternal
computeEnvelopeInternal(c) == EnvOfMembers(c.geoms, 1)

\* geometryChangedAction leaving the cached envelope in place
geometryChangedAction_Keep(c) == c

\* GeometryCollection::geometryChangedAction
geometryChangedAction(c) == [c EXCEPT !.envelope = NullEnv]

\* GeometryCollection::getEnvelopeInternal: the object after the call; the
\* pointer returned designates its envelope member
GeometryCollection_getEnvelopeInternal(c) ==
    IF c.envelope.null THEN [c EXCEPT !.envelope = computeEnvelopeInternal(c)] ELSE c

\* a call of getEnvelopeInternal
GetEnvelopeInternal ==
    /\ gc.used
    /\ LET c == GeometryCollection_getEnvelopeInternal(gc)
       IN  gc' = [c EXCEPT !.ret = c.envelope, !.last = "get"]
    /\ UNCHANGED <<rgVars, thr, ringRes, wkb>>

\* a modification of the contents, followed by geometryChangedAction
Modify ==
    /\ gc.used
    /\ \E g2 \in GcContents \ {gc.geoms} :
         gc' = geometryChangedAction(
                   [gc EXCEPT !.geoms = g2, !.mutated = TRUE, !.last = "modify"])
    /\ UNCHANGED <<rgVars, thr, ringRes, wkb>>

\* Geometry::geometryChanged without a change of the contents
GeometryChanged ==
    /\ gc.used
    /\ gc' = geometryChangedAction([gc EXCEPT !.mutated = TRUE, !.last = "changed"])
    /\ UNCHANGED <<rgVars, thr, ringRes, wkb>>

\* RelateGeometry::RelateGeometry on the collection: geomEnv is the pointer
\* input->getEnvelopeInternal() returns
ConstructOnCollection ==
    /\ gc.used
    /\ LET c == GeometryCollection_getEnvelopeInternal(gc)
       IN  gc' = [c EXCEPT !.ret = c.envelope, !.last = "construct",
                           !.rg = TRUE, !.mutated = FALSE]
    /\ UNCHANGED <<rgVars, thr, ringRes, wkb>>

\* a collection as its constructor left it: the envelope computed or not
NewCollection ==
    \E g \in GcContents :
      \E e \in {NullEnv, EnvOfMembers(g, 1)} :
        gc = [used |-> TRUE, geoms |-> g, envelope |-> e, ret |-> NullPtrEnv,
              last |-> "new", rg |-> FALSE, mutated |-> FALSE]

\* no RelateGeometry of the first specification is in use
NoRelateGeometry ==
    /\ geom = PtEmpty
    /\ instIsA = TRUE
    /\ Blank
    /\ NoBuilds
    /\ zlLine = <<>>
    /\ zlRes = "none"

InitEnv ==
    /\ NoRelateGeometry
    /\ NewCollection
    /\ NoThreads /\ NoRingCall /\ NoWriter

NextEnv ==
    \/ GetEnvelopeInternal
    \/ Modify
    \/ GeometryChanged
    \/ ConstructOnCollection

SpecEnv == InitEnv /\ [][NextEnv]_vars

-----------------------------------------------------------------------------
(* Threads, each constructing its own RelateGeometry on the shared          *)
(* collection gc.  The constructor reads the input except for               *)
(* input->getEnvelopeInternal(), whose steps on the shared object are taken  *)
(* one at a time: the test of envelope.isNull(), the assignment to envelope, *)
(* the return of the pointer.                                               *)

Threads == 1..NThreads

\* getEnvelopeInternal, the test: if (envelope.isNull())
EnvIsNull(t) ==
    /\ thr.used
    /\ thr.pc[t] = "start"
    /\ thr' = [thr EXCEPT !.pc[t] = IF gc.envelope.null THEN "compute" ELSE "return"]
    /\ UNCHANGED <<rgVars, gc, ringRes, wkb>>

\* getEnvelopeInternal, the assignment: envelope = computeEnvelopeInternal()
EnvStore(t) ==
    /\ thr.used
    /\ thr.pc[t] = "compute"
    /\ gc' = [gc EXCEPT !.envelope = computeEnvelopeInternal(gc)]
    /\ thr' = [thr EXCEPT !.pc[t] = "return", !.wrote = @ \cup {t}]
    /\ UNCHANGED <<rgVars, ringRes, wkb>>

\* return &envelope, and the rest of the constructor, which reads the input
EnvReturn(t) ==
    /\ thr.used
    /\ thr.pc[t] = "return"
    /\ thr' = [thr EXCEPT !.pc[t] = "constructed"]
    /\ UNCHANGED <<rgVars, gc, ringRes, wkb>>

\* getLocator on the thread's own instance
ThreadGetLocator(t) ==
    /\ thr.used
    /\ thr.pc[t] = "constructed"
    /\ thr' = [thr EXCEPT !.locator[t] = getLocator(@)]
    /\ UNCHANGED <<rgVars, gc, ringRes, wkb>>

InitRace ==
    /\ NoRelateGeometry
    /\ NewCollection
    /\ thr = [used |-> TRUE, pc |-> [t \in Threads |-> "start"], wrote |-> {},
              locator |-> [t \in Threads |-> FALSE]]
    /\ NoRingCall /\ NoWriter

NextRace ==
    \E t \in Threads :
        \/ EnvIsNull(t)
        \/ EnvStore(t)
        \/ EnvReturn(t)
        \/ ThreadGetLocator(t)

SpecRace == InitRace /\ [][NextRace]_vars

-----------------------------------------------------------------------------
(* GEOSGetExteriorRing of the C API, as the unit test                        *)
(* src/tests/unit/capi/GEOSGetExteriorRingTest.cpp shows it.  The result is  *)
(* a pointer into the argument: ring k of the geometry, 0 the null pointer.  *)

LnClosed == MkLine(<<C(0,0), C(1,0), C(1,1), C(0,0)>>)
CurvePg  == Geom("CurvePolygon", <<>>, << <<C(0,0), C(1,1), C(2,0), C(0,0)>> >>, <<>>)

\* the arguments handed to GEOSGetExteriorRing
RingInputs == Inputs \cup {LnClosed, CurvePg}

\* the classes of Surface: Polygon and CurvePolygon
isSurface(g) == g.type \in {"Polygon", "CurvePolygon"}

\* GEOSGetExteriorRing handing back the last ring of the surface
GEOSGetExteriorRing_LastRing(g) == IF isSurface(g) THEN Len(g.rings) ELSE 0

\* GEOSGetExteriorRing
GEOSGetExteriorRing(g) == IF isSurface(g) THEN 1 ELSE 0

GetExteriorRing ==
    /\ ringRes.used
    /\ ~ringRes.called
    /\ ringRes' = [ringRes EXCEPT !.called = TRUE, !.ring = GEOSGetExteriorRing(ringRes.g)]
    /\ UNCHANGED <<rgVars, gc, thr, wkb>>

InitRing ==
    /\ NoRelateGeometry
    /\ \E g \in RingInputs : ringRes = [used |-> TRUE, g |-> g, called |-> FALSE, ring |-> 0]
    /\ NoCollection /\ NoThreads /\ NoWriter

NextRing == GetExteriorRing

SpecRing == InitRing /\ [][NextRing]_vars

-----------------------------------------------------------------------------
(* WKBWriter (src/source/io/WKBWriter.cpp).  wkb holds the writer            *)
(* (outputDimension, byteOrder), the geometry handed to write, the dimension *)
(* csDim its coordinate sequences report, and out, what the stream has       *)
(* received: one entry per outStream->write call, k its kind ("byte", 1      *)
(* byte; "int", 4 bytes; "double", 8 bytes), v the value ByteOrderValues     *)
(* encoded, role what the value stands for.                                  *)

\* WKBConstants
wkbPoint == 1
wkbLineString == 2
wkbPolygon == 3
wkbMultiPoint == 4
wkbMultiLineString == 5
wkbMultiPolygon == 6
wkbGeometryCollection == 7

\* CoordinateSequence::X, Y, Z
OrdX == 0
OrdY == 1
OrdZ == 2

\* CoordinateSequence::getOrdinate
getOrdinate(c, ordinate) == c[ordinate + 1]

Emit(st, kind, role, val) ==
    [st EXCEPT !.out = Append(@, [k |-> kind, role |-> role, v |-> val])]

\* WKBWriter::writeByteOrder: the first byte of the int byteOrder, its low
\* byte on a little-endian host
writeByteOrder(w, st) == Emit(st, "byte", "byteOrder", w.byteOrder)

\* WKBWriter::writeInt; val is a 32-bit int, written as its four bytes
writeInt(w, role, val, st) == Emit(st, "int", role, val)

\* WKBWriter::writeGeometryType.  0x80000000 as an int is the sign bit alone,
\* the smallest int; or-ing it to a type id, which has no bit in common with
\* it, adds it.
writeGeometryType(w, typeId, st) ==
    LET flag3D  == IF w.outputDimension = 3 THEN (-2147483647) - 1 ELSE 0
        typeInt == typeId + flag3D
    IN  writeInt(w, "type", typeInt, st)

\* WKBWriter::writeCoordinate
writeCoordinate(w, c, is3d, st) ==
    LET s1 == Emit(st, "double", "ordinate", getOrdinate(c, OrdX))
        s2 == Emit(s1, "double", "ordinate", getOrdinate(c, OrdY))
    IN  IF is3d THEN Emit(s2, "double", "ordinate", getOrdinate(c, OrdX)) ELSE s2

\* the loop of writeCoordinateSequence from index i on
RECURSIVE WriteCoordinates(_, _, _, _, _)
WriteCoordinates(w, cs, i, is3d, st) ==
    IF i > Len(cs) THEN st
    ELSE WriteCoordinates(w, cs, i + 1, is3d, writeCoordinate(w, cs[i], is3d, st))

\* WKBWriter::writeCoordinateSequence
writeCoordinateSequence(w, cs, sized, st) ==
    LET is3d == w.csDim > 2 /\ w.outputDimension > 2
        s1   == IF sized THEN writeInt(w, "size", Len(cs), st) ELSE st
    IN  WriteCoordinates(w, cs, 1, is3d, s1)

\* WKBWriter::writePoint
writePoint(w, g, st) ==
    IF isEmpty(g) THEN [st EXCEPT !.thrown = TRUE]
    ELSE writeCoordinateSequence(w, g.pts, FALSE,
             writeGeometryType(w, wkbPoint, writeByteOrder(w, st)))

\* WKBWriter::writeLineString
writeLineString(w, g, st) ==
    writeCoordinateSequence(w, g.pts, TRUE,
        writeGeometryType(w, wkbLineString, writeByteOrder(w, st)))

\* the loop of writePolygon over the interior rings, from ring k on
RECURSIVE WriteHoles(_, _, _, _)
WriteHoles(w, g, k, st) ==
    IF k > Len(g.rings) THEN st
    ELSE WriteHoles(w, g, k + 1, writeCoordinateSequence(w, g.rings[k], TRUE, st))

\* WKBWriter::writePolygon
writePolygon(w, g, st) ==
    LET nholes == Len(g.rings) - 1
        s1 == writeInt(w, "count", nholes + 1,
                  writeGeometryType(w, wkbPolygon, writeByteOrder(w, st)))
    IN  WriteHoles(w, g, 2, writeCoordinateSequence(w, g.rings[1], TRUE, s1))

\* WKBWriter::write, WKBWriter::writeGeometryCollection and its loop over the
\* members from index i on; an exception thrown ends every loop
RECURSIVE write(_, _, _)
RECURSIVE WriteElems(_, _, _, _)
WriteElems(w, g, i, st) ==
    IF st.thrown \/ i > Len(g.geoms) THEN st
    ELSE WriteElems(w, g, i + 1, write(w, g.geoms[i], st))

writeGeometryCollection(w, g, wkbtype, st) ==
    WriteElems(w, g, 1,
        writeInt(w, "count", Len(g.geoms),
            writeGeometryType(w, wkbtype, writeByteOrder(w, st))))

write(w, g, st) ==
    CASE g.type = "Point" -> writePoint(w, g, st)
      [] g.type \in {"LineString", "LinearRing"} -> writeLineString(w, g, st)
      [] g.type = "Polygon" -> writePolygon(w, g, st)
      [] g.type = "MultiPoint" -> writeGeometryCollection(w, g, wkbMultiPoint, st)
      [] g.type = "MultiLineString" -> writeGeometryCollection(w, g, wkbMultiLineString, st)
      [] g.type = "MultiPolygon" -> writeGeometryCollection(w, g, wkbMultiPolygon, st)
      [] g.type = "GeometryCollection" ->
             writeGeometryCollection(w, g, wkbGeometryCollection, st)

\* WKBWriter::WKBWriter(dims, bo)
NewWriter ==
    /\ wkb.used
    /\ wkb.status = "raw"
    /\ \E dims \in 1..4, bo \in {0, 1} :
         wkb' = IF dims < 2 \/ dims > 3
                THEN [wkb EXCEPT !.status = "rejected"]
                ELSE [wkb EXCEPT !.status = "ready", !.outputDimension = dims,
                                 !.byteOrder = bo]
    /\ UNCHANGED <<rgVars, gc, thr, ringRes>>

\* a call of write(g, os) on an empty stream
Write ==
    /\ wkb.used
    /\ wkb.status = "ready"
    /\ LET r == write(wkb, wkb.geom, [out |-> <<>>, thrown |-> FALSE])
       IN  wkb' = [wkb EXCEPT !.out = r.out,
                              !.status = IF r.thrown THEN "thrown" ELSE "done"]
    /\ UNCHANGED <<rgVars, gc, thr, ringRes>>

K(x, y, z) == <<x, y, z>>

WPt  == MkPoint(<<K(1,2,3)>>)
WLn  == MkLine(<<K(1,2,3), K(4,5,6)>>)
WRg  == MkRing(<<K(1,1,7), K(5,1,8), K(5,5,9), K(1,1,7)>>)
WPg  == MkPolygon(<<WRg.pts>>)
WPgH == MkPolygon(<<WRg.pts, <<K(3,2,4), K(4,2,5), K(4,3,6), K(3,2,4)>> >>)

\* members of the collections handed to write
WkbPool == {PtEmpty, WPt, WLn, WPgH, MkMultiPoint(<<WPt, PtEmpty>>)}

WkbInputs ==
    {PtEmpty, WPt, LnEmpty, WLn, WRg, PgEmpty, WPg, WPgH}
    \cup {MkMultiPoint(s) : s \in SeqUpTo({PtEmpty, WPt}, MaxWkbElems)}
    \cup {MkMultiLine(<<WLn>>), MkMultiPoly(<<WPg, WPgH>>)}
    \cup {MkCollection(s) : s \in SeqUpTo(WkbPool, MaxWkbElems)}

InitWKB ==
    /\ NoRelateGeometry
    /\ \E g \in WkbInputs, d \in {2, 3} :
         wkb = [used |-> TRUE, status |-> "raw", outputDimension |-> 0, byteOrder |-> 0,
                geom |-> g, csDim |-> d, out |-> <<>>]
    /\ NoCollection /\ NoThreads /\ NoRingCall

NextWKB ==
    \/ NewWriter
    \/ Write

SpecWKB == InitWKB /\ [][NextWKB]_vars

-----------------------------------------------------------------------------
(* Vocabulary of the properties *)

\* every geometry contained in g at any nesting depth, g included, with its pointer
RECURSIVE AllNodes(_, _)
AllNodes(g, path) ==
    {[path |-> path, g |-> g]}
    \cup (IF isCollectionClass(g)
          THEN UNION {AllNodes(g.geoms[i], Append(path, i)) : i \in 1..Len(g.geoms)}
          ELSE {})

\* the geometry a pointer designates
RECURSIVE NodeAt(_, _)
NodeAt(g, path) == IF path = <<>> THEN g ELSE NodeAt(g.geoms[Head(path)], Tail(path))

\* the pointer to the collection a member belongs to
Front(path) == SubSeq(path, 1, Len(path) - 1)

\* the elements handed to atomic extraction: the input itself when it is no
\* collection, else the members of the input and of the GeometryCollections
\* nested in it
RECURSIVE Handed(_, _)
Handed(g, path) ==
    IF ~isCollectionClass(g) THEN {[path |-> path, g |-> g]}
    ELSE UNION {IF g.geoms[i].type = "GeometryCollection"
                THEN Handed(g.geoms[i], Append(path, i))
                ELSE {[path |-> Append(path, i), g |-> g.geoms[i]]} : i \in 1..Len(g.geoms)}

SegIdx == 1..Len(segStrings)

passes(env, e) == env.nullptr \/ intersects(env, e)

-----------------------------------------------------------------------------
\* C1: in the vector a call returns, a LineString has one segment string, with
\* ring id -1; a polygon has at most one segment string per ring, with ring id
\* 0 for the shell and i for the i-th hole, shell first and holes in index
\* order; two segment strings carry one element id exactly when they come from
\* one element.
C1_RingAndElementIds ==
    calls > 0 =>
        \A i \in SegIdx :
            LET ss == segStrings[i]
                e  == NodeAt(geom, ss.src)
            IN  /\ e.type \in {"LineString", "Polygon"}
                /\ e.type = "LineString" => ss.ring = 0 /\ ss.ringId = -1
                /\ e.type = "Polygon" => ss.ring >= 1 /\ ss.ringId = ss.ring - 1
                /\ \A j \in SegIdx \ {i} :
                       /\ ~(segStrings[j].src = ss.src /\ segStrings[j].ring = ss.ring)
                       /\ (segStrings[j].elementId = ss.elementId) <=> (segStrings[j].src = ss.src)
                       /\ (j > i /\ segStrings[j].src = ss.src) => segStrings[j].ring > ss.ring

\* a call returned a line, a shell and a first hole
C1_Witness ==
    /\ \E i \in SegIdx : segStrings[i].ringId = -1
    /\ \E i, j \in SegIdx :
           /\ segStrings[i].ringId = 0
           /\ segStrings[j].ringId = 1
           /\ segStrings[i].src = segStrings[j].src

C3_EveryLinealAndPolygon ==
    (calls > 0 /\ lastEnv.nullptr) =>
        \A n \in AllNodes(geom, <<>>) :
            (n.g.type \in {"LineString", "LinearRing", "Polygon"} /\ ~isEmpty(n.g)) =>
                \E i \in SegIdx : segStrings[i].src = n.path

\* C4: a ring segment string carries a non-null parent, the MultiPolygon when
\* its polygon is a direct member of one and the polygon itself otherwise; a
\* line segment string carries none.
C4_ParentPolygonal ==
    \A i \in 1..Len(emitted) :
        LET ss == emitted[i].ss
        IN  IF ss.ring = 0
            THEN ss.parent = NullPath
            ELSE /\ ss.parent # NullPath
                 /\ ss.parent = IF ss.src # <<>> /\ NodeAt(geom, Front(ss.src)).type = "MultiPolygon"
                                THEN Front(ss.src)
                                ELSE ss.src

\* a call returned rings of two polygons of one MultiPolygon, with one parent
C4_Witness ==
    \E i, j \in SegIdx :
        /\ segStrings[i].ring > 0
        /\ segStrings[j].ring > 0
        /\ segStrings[i].src # segStrings[j].src
        /\ segStrings[i].parent = segStrings[j].parent
        /\ NodeAt(geom, segStrings[i].parent).type = "MultiPolygon"

\* C5: over all calls, two segment strings carry one element id exactly when
\* they come from one element in one call; the ids of a later call exceed
\* those of every earlier call and none exceeds the counter.
C5_ElementIdsUnique ==
    \A i, j \in 1..Len(emitted) :
        /\ (emitted[i].ss.elementId = emitted[j].ss.elementId)
               <=> (emitted[i].call = emitted[j].call /\ emitted[i].ss.src = emitted[j].ss.src)
        /\ emitted[i].call < emitted[j].call => emitted[i].ss.elementId < emitted[j].ss.elementId
        /\ emitted[i].ss.elementId >= 1
        /\ emitted[i].ss.elementId <= elementId

\* one element was extracted by two calls
C5_Witness ==
    \E i, j \in 1..Len(emitted) :
        /\ emitted[i].call # emitted[j].call
        /\ emitted[i].ss.src = emitted[j].ss.src

\* the dimension of an atomic geometry type
typeDim(g) ==
    CASE g.type = "Point" -> DimP
      [] g.type \in {"LineString", "LinearRing"} -> DimL
      [] g.type = "Polygon" -> DimA
      [] OTHER -> DimFalse

\* the dimensions of the non-empty atomic elements contained in the input
ElementDims == {typeDim(n.g) : n \in {m \in AllNodes(geom, <<>>) :
                                         ~isCollectionClass(m.g) /\ ~isEmpty(m.g)}}

\* every vertex equals the first in X and Y
AllEqualFirst(pts) ==
    \A i \in 1..Len(pts) : pts[i][1] = pts[1][1] /\ pts[i][2] = pts[1][2]

\* C6: once constructed on a non-empty input, hasPoints, hasLines and hasAreas
\* tell whether the input contains a non-empty element of dimension P, L and A,
\* getDimension() is the largest of these dimensions and
\* hasDimension(getDimension()) is true.
C6_DimensionFlags ==
    (state = "ready" /\ ~isEmpty(geom)) =>
        /\ hasPoints <=> DimP \in ElementDims
        /\ hasLines <=> DimL \in ElementDims
        /\ hasAreas <=> DimA \in ElementDims
        /\ \A d \in ElementDims : d <= getDimensionRG
        /\ getDimensionRG \in ElementDims
        /\ hasDimension(getDimensionRG)

\* C7: on a non-empty input getDimensionReal() is P when the dimension of the
\* input is L and every LineString of it is zero-length, and otherwise A if the
\* input has areas, else L if it has lines, else P.
C7_DimensionReal ==
    (state = "ready" /\ ~isEmpty(geom)) =>
        getDimensionReal =
            IF /\ getDimension(geom) = DimL
               /\ \A n \in AllNodes(geom, <<>>) :
                      n.g.type = "LineString" => AllEqualFirst(n.g.pts)
            THEN DimP
            ELSE IF DimA \in ElementDims THEN DimA
            ELSE IF \E n \in AllNodes(geom, <<>>) : n.g.type = "LineString" /\ ~isEmpty(n.g)
                 THEN DimL
            ELSE DimP

\* C8: isZeroLength(LineString) is true exactly when every vertex equals the
\* first vertex in X and Y, which a line of fewer than two points does.
C8_ZeroLengthAllVertices ==
    zlRes # "none" => ((zlRes = "true") <=> AllEqualFirst(zlLine))

\* the test refused a line (p, p, q)
C8_Witness ==
    /\ zlRes = "false"
    /\ Len(zlLine) = 3
    /\ zlLine[1] = zlLine[2]

\* C9: constructed on a plain LineString, isLineZeroLen is the result of
\* isZeroLength(LineString) on that line.
C9_DirectDispatch ==
    (state = "ready" /\ geom.type = "LineString") =>
        (isLineZeroLen <=> isZeroLengthLine(geom.pts))

\* C10 as stated: once constructed, no operation changes a member other than
\* the locator and the unique-points set.
C10_OnlyCachesChange ==
    [][state = "ready" =>
          UNCHANGED <<geom, m_isPrepared, geomEnv, geomDim, isLineZeroLen, isGeomEmpty,
                      hasPoints, hasLines, hasAreas, elementId>>]_vars

\* C10 amended: ... other than the locator, the unique-points set and the
\* element counter.
C10_OnlyCachesAndCounterChange ==
    [][state = "ready" =>
          UNCHANGED <<geom, m_isPrepared, geomEnv, geomDim, isLineZeroLen, isGeomEmpty,
                      hasPoints, hasLines, hasAreas>>]_vars

\* segment strings were extracted and both caches built
C10_Witness ==
    /\ calls > 0
    /\ elementId > 0
    /\ locator = TRUE
    /\ uniquePoints # {}

-----------------------------------------------------------------------------
\* C11: each lazy cache, the point locator and the unique-points set, is built
\* at most once per instance: whatever the input and the sequence of accesses,
\* no access after the first one builds the cache again.
C11_BuiltAtMostOnce ==
    /\ builds.locator <= 1
    /\ builds.unique <= 1

-----------------------------------------------------------------------------
\* two threads are at conflicting accesses to the envelope member of the
\* shared input: one about to assign it, the other about to test or assign it
EnvelopeRace ==
    \E t, u \in Threads :
        /\ t # u
        /\ thr.pc[t] = "compute"
        /\ thr.pc[u] \in {"start", "compute"}

\* C12: concurrent relate calls on distinct RelateGeometry instances wrapping
\* the same input do not race: constructing and using a RelateGeometry only
\* reads the shared input, never writes it, also when the input is a
\* GeometryCollection whose envelope has not been computed yet.
C12_InputOnlyRead ==
    /\ thr.wrote = {}
    /\ ~EnvelopeRace

-----------------------------------------------------------------------------
\* C13: for an empty input of any geometry type no operation raises an error
\* and the RelateGeometry reports the empty set: getDimensionReal() is FALSE,
\* hasDimension(d) is false for P, L and A, hasEdges() is false, and
\* extractSegmentStrings emits no segment string whatever the filter.
C13_EmptyInput ==
    isEmpty(geom) =>
        /\ state # "crashed"
        /\ state = "ready" =>
              /\ getDimensionReal = DimFalse
              /\ \A d \in {DimP, DimL, DimA} : ~hasDimension(d)
              /\ ~hasEdges
              /\ emitted = <<>>

-----------------------------------------------------------------------------
\* C14: GEOSGetExteriorRing returns the exterior ring, the first ring, of a
\* polygon argument, never one of its holes, as a pointer into the argument,
\* and returns null for every argument that is not a polygon, a closed
\* LineString included.
C14_ExteriorRingOrNull ==
    ringRes.called =>
        IF isSurface(ringRes.g)
        THEN /\ ringRes.ring = 1
             /\ \A k \in 2..Len(ringRes.g.rings) : ringRes.ring # k
        ELSE ringRes.ring = 0

\* the exterior ring of a polygon with a hole was handed back
C14_Witness ==
    /\ ringRes.called
    /\ ringRes.g.type = "Polygon"
    /\ Len(ringRes.g.rings) > 1
    /\ ringRes.ring = 1

\* a closed LineString was answered with null
C14_WitnessClosedLine ==
    /\ ringRes.called
    /\ ringRes.g = LnClosed
    /\ ringRes.ring = 0

-----------------------------------------------------------------------------
\* the pointers to the Point elements of the input
PointPaths == {n.path : n \in {m \in AllNodes(geom, <<>>) : m.g.type = "Point"}}

\* pointer p comes before pointer q in the order of the input
Before(p, q) ==
    \E k \in 1..Min(Len(p), Len(q)) :
        /\ p[k] < q[k]
        /\ \A j \in 1..(k - 1) : p[j] = q[j]

\* the Point at path has a coordinate, and no line or area of the input
\* contains it
Uncovered(path) ==
    LET pt == NodeAt(geom, path)
    IN  /\ Len(pt.pts) > 0
        /\ \A n \in AllNodes(geom, <<>>) :
              /\ n.g.type \in {"LineString", "LinearRing"} => ~onLine(pt.pts[1], n.g.pts)
              /\ n.g.type = "Polygon" => locateInArea(pt.pts[1], n.g) = "EXTERIOR"

-----------------------------------------------------------------------------
\* C16: the cached envelope of a GeometryCollection is never stale: after any
\* sequence of modifications, each followed by geometryChangedAction, and of
\* getEnvelopeInternal calls, the envelope a getEnvelopeInternal call hands
\* back equals computeEnvelopeInternal() of the current contents, and the
\* pointer a RelateGeometry stored at construction designates that envelope
\* as long as the input has not been changed since.
C16_EnvelopeNeverStale ==
    /\ gc.last \in {"get", "construct"} => gc.ret = computeEnvelopeInternal(gc)
    /\ (gc.rg /\ ~gc.mutated) => gc.envelope = computeEnvelopeInternal(gc)

\* a RelateGeometry was constructed on the collection, the collection was
\* modified afterwards, and a later getEnvelopeInternal handed back a
\* non-null envelope
C16_Witness ==
    /\ gc.rg
    /\ gc.mutated
    /\ gc.last = "get"
    /\ ~gc.ret.null

-----------------------------------------------------------------------------
\* the coordinates of g in the order write visits them
RECURSIVE AllCoords(_)
RECURSIVE CoordsOfSeq(_, _, _)
CoordsOfSeq(g, parts, i) ==
    IF i > Len(parts) THEN <<>>
    ELSE (IF g.type = "Polygon" THEN parts[i] ELSE AllCoords(parts[i]))
         \o CoordsOfSeq(g, parts, i + 1)
AllCoords(g) ==
    CASE g.type \in {"Point", "LineString", "LinearRing"} -> g.pts
      [] g.type = "Polygon" -> CoordsOfSeq(g, g.rings, 1)
      [] OTHER -> CoordsOfSeq(g, g.geoms, 1)

\* the ordinates of the coordinates cs, three or two of each
RECURSIVE Ordinates(_, _, _)
Ordinates(cs, i, threeD) ==
    IF i > Len(cs) THEN <<>>
    ELSE (IF threeD THEN <<cs[i][1], cs[i][2], cs[i][3]>> ELSE <<cs[i][1], cs[i][2]>>)
         \o Ordinates(cs, i + 1, threeD)

\* the doubles the stream received
RECURSIVE DoublesFrom(_, _)
DoublesFrom(out, i) ==
    IF i > Len(out) THEN <<>>
    ELSE (IF out[i].k = "double" THEN <<out[i].v>> ELSE <<>>) \o DoublesFrom(out, i + 1)

\* the writer writes three ordinates per coordinate
ThreeOrdinates == wkb.csDim > 2 /\ wkb.outputDimension > 2

\* C17: in 3D mode a coordinate is written as X, Y, Z, the third value being
\* the Z ordinate, and in 2D mode as exactly X then Y.
C17_ThirdOrdinateIsZ ==
    wkb.status = "done" =>
        DoublesFrom(wkb.out, 1) = Ordinates(AllCoords(wkb.geom), 1, ThreeOrdinates)

\* some geometry type written to the stream carries the 3D flag 0x80000000,
\* the sign bit of the int
HeaderFlag3D == \E i \in 1..Len(wkb.out) : wkb.out[i].role = "type" /\ wkb.out[i].v < 0

\* C18: the 3D flag is set in the geometry type of a record if and only if
\* each coordinate of the record is written with three ordinates, whatever
\* the output dimension and the dimension of the coordinate sequence.
C18_FlagMatchesPayload ==
    (wkb.status = "done" /\ Len(AllCoords(wkb.geom)) > 0) =>
        LET n == Len(AllCoords(wkb.geom))
            d == Len(DoublesFrom(wkb.out, 1))
        IN  /\ HeaderFlag3D <=> d = 3 * n
            /\ ~HeaderFlag3D <=> d = 2 * n

\* the number of stream writes the complete record of g takes
RECURSIVE RecordWrites(_, _)
RECURSIVE WritesOfSeq(_, _, _, _)
WritesOfSeq(g, parts, i, ords) ==
    IF i > Len(parts) THEN 0
    ELSE (IF g.type = "Polygon" THEN 1 + ords * Len(parts[i])
          ELSE RecordWrites(parts[i], ords))
         + WritesOfSeq(g, parts, i + 1, ords)
RecordWrites(g, ords) ==
    CASE g.type = "Point" -> 2 + ords * Len(g.pts)
      [] g.type \in {"LineString", "LinearRing"} -> 3 + ords * Len(g.pts)
      [] g.type = "Polygon" -> 3 + WritesOfSeq(g, g.rings, 1, ords)
      [] OTHER -> 3 + WritesOfSeq(g, g.geoms, 1, ords)

\* C19: write is all-or-nothing with respect to the empty-Point error: when
\* it throws, the geometry being or containing an empty Point at any position,
\* no byte has been written to the stream; otherwise the complete record has
\* been written.
C19_AllOrNothing ==
    /\ wkb.status = "thrown" => wkb.out = <<>>
    /\ wkb.status = "done" =>
          Len(wkb.out) = RecordWrites(wkb.geom, IF ThreeOrdinates THEN 3 ELSE 2)

=============================================================================
